---- MODULE Spec2Model ----
(***************************************************************************)
(* Egyptian National ID service: the access gate (app/security.py), the    *)
(* fixed-window rate limiter (app/security.py), the SQLite key store       *)
(* (app/database.py) and the two endpoints (app/main.py), as a state       *)
(* machine of concurrently served requests.                                *)
(***************************************************************************)
EXTENDS Integers, Sequences, FiniteSets, TLC

(* ------------------------------ bounds --------------------------------- *)
NumThreads == 2
MaxRequests == 3
MaxInitialise == 1
MaxBurstRequests == 6

(* ------------------------- program constants --------------------------- *)
window_seconds == 60
HTTP_200_OK == 200
HTTP_400_BAD_REQUEST == 400
HTTP_401_UNAUTHORIZED == 401
HTTP_429_TOO_MANY_REQUESTS == 429
HTTP_500_INTERNAL_SERVER_ERROR == 500

(* ------------------------------ inputs --------------------------------- *)
Threads == 1..NumThreads

\* readings of time.monotonic(): process start, the last instant of the
\* window opened then, and the instant that window ends
Times == {0, window_seconds - 1, window_seconds}

\* readings over three windows
BurstTimes == Times \cup {2 * window_seconds}

\* values of API_RATE_LIMIT_PER_MINUTE (int(os.getenv(...)) accepts any integer)
Limits == {0, 1, 2}

\* the X-API-Key header is absent (api_key is None)
NoHeader == "<None>"
StoreKeys == {"test-key", "rate-key"}
\* what a request presents: no header, an empty header, a key the table
\* never holds, and the key the table holds from startup on
ApiKeys == {NoHeader, "", "bogus-key", "test-key"}
Endpoints == {"inspect", "usage"}

\* DEFAULT_API_KEYS at startup, as _parse_default_api_keys returns it
StartupKeys == << <<"test-key", "Test User">> >>

\* default_keys of a later Database.initialise: the known key with another
\* owner, and a key the table does not hold yet
LaterKeys == << <<"test-key", "default">>, <<"rate-key", "Rate User">> >>

\* Optional[T] as a sequence of length at most one
None == <<>>
Some(x) == <<x>>

(* --------------------------- national_id.py ---------------------------- *)
\* one string per character; "^2" stands for U+00B2 SUPERSCRIPT TWO
Digits == {"0", "1", "2", "3", "4", "5", "6", "7", "8", "9"}
\* characters str.isdigit() accepts and int() rejects
NonDecimalDigits == {"^2"}
Whitespace == {" "}

DigitVal(c) ==
    CASE c = "0" -> 0 [] c = "1" -> 1 [] c = "2" -> 2 [] c = "3" -> 3
      [] c = "4" -> 4 [] c = "5" -> 5 [] c = "6" -> 6 [] c = "7" -> 7
      [] c = "8" -> 8 [] c = "9" -> 9

\* the two digits read in the wrong order
Int2_swapped(s, i) == DigitVal(s[i]) + 10 * DigitVal(s[i + 1])

\* int(s[i:j]) for a two-character slice of decimal digits (1-based i)
Int2(s, i) == 10 * DigitVal(s[i]) + DigitVal(s[i + 1])

\* int(s) raises ValueError: some character of s is no decimal digit
IntRaises(s) == \E i \in 1..Len(s) : s[i] \notin Digits

RECURSIVE lstrip(_)
lstrip(s) == IF s # <<>> /\ Head(s) \in Whitespace THEN lstrip(Tail(s)) ELSE s

RECURSIVE rstrip(_)
rstrip(s) ==
    IF s # <<>> /\ s[Len(s)] \in Whitespace
    THEN rstrip(SubSeq(s, 1, Len(s) - 1)) ELSE s

strip(s) == rstrip(lstrip(s))

isdigit(s) ==
    s # <<>> /\ \A i \in 1..Len(s) : s[i] \in Digits \cup NonDecimalDigits

_GOVERNORATE_CODES ==
    { <<"0","1">>, <<"0","2">>, <<"0","3">>, <<"0","4">>,
      <<"1","1">>, <<"1","2">>, <<"1","3">>, <<"1","4">>, <<"1","5">>,
      <<"1","6">>, <<"1","7">>, <<"1","8">>, <<"1","9">>,
      <<"2","1">>, <<"2","2">>, <<"2","3">>, <<"2","4">>, <<"2","5">>,
      <<"2","6">>, <<"2","7">>, <<"2","8">>, <<"2","9">>,
      <<"3","1">>, <<"3","2">>, <<"3","3">>, <<"3","4">>, <<"3","5">>,
      <<"8","8">> }

IsLeap(y) == (y % 4 = 0 /\ y % 100 # 0) \/ y % 400 = 0

DaysInMonth(y, m) ==
    IF m = 2 THEN (IF IsLeap(y) THEN 29 ELSE 28)
    ELSE IF m \in {4, 6, 9, 11} THEN 30 ELSE 31

\* datetime.date(year, month, day) raises ValueError exactly when this fails
ValidDate(y, m, d) == m \in 1..12 /\ d >= 1 /\ d <= DaysInMonth(y, m)

\* raise NationalIDValidationError(message)
ValidationError(message) ==
    [ok |-> FALSE, raises |-> "NationalIDValidationError", error |-> message]

\* parse_national_id: the details, or the exception it raises: its own
\* NationalIDValidationError, or the ValueError of an int() outside the try
parse_national_id(national_id) ==
    LET stripped == strip(national_id) IN
    IF Len(stripped) # 14 \/ ~isdigit(stripped)
    THEN ValidationError("National ID must be a 14-digit numeric string")
    ELSE IF stripped[1] \notin {"2", "3"}
    THEN ValidationError("Unsupported century digit in National ID")
    ELSE IF IntRaises(SubSeq(stripped, 2, 7))
    THEN [ok |-> FALSE, raises |-> "ValueError",
          error |-> "invalid literal for int() with base 10"]
    ELSE
      LET year  == (IF stripped[1] = "2" THEN 1900 ELSE 2000) + Int2(stripped, 2)
          month == Int2(stripped, 4)
          day   == Int2(stripped, 6)
          governorate_code == SubSeq(stripped, 8, 9)
      IN
      IF ~ValidDate(year, month, day)
      THEN ValidationError("Invalid birth date in National ID")
      ELSE IF governorate_code \notin _GOVERNORATE_CODES
      THEN ValidationError("Unknown governorate code in National ID")
      ELSE IF IntRaises(<<stripped[13]>>)
      THEN [ok |-> FALSE, raises |-> "ValueError",
            error |-> "invalid literal for int() with base 10"]
      ELSE [ok |-> TRUE,
            birth_date |-> <<year, month, day>>,
            gender |-> IF DigitVal(stripped[13]) % 2 = 1 THEN "male" ELSE "female",
            governorate_code |-> governorate_code]

\* request bodies: the two IDs of tests/test_main.py
NationalIds ==
    { <<"3","0","1","0","1","0","1","2","1","0","0","0","1","3">>,
      <<"1","0","1","0","1","0","1","2","1","0","0","0","1","3">> }

\* inputs of parse_national_id: every combination of a century digit, a
\* YYMMDD field (valid dates, 29 February in and out of a leap year, month
\* 13, 31 April, a non-decimal digit), a governorate field (in and out of
\* the table) and a gender digit, then strings of other shapes
ParseCenturies == {"1", "2", "3", "4"}
ParseDates ==
    { <<"0","1","0","1","0","1">>, <<"9","9","1","2","3","1">>,
      <<"0","4","0","2","2","9">>, <<"0","1","0","2","2","9">>,
      <<"0","1","1","3","0","1">>, <<"0","1","0","4","3","1">>,
      <<"0","^2","0","1","0","1">> }
ParseGovernorates == { <<"2","1">>, <<"8","8">>, <<"0","0">>, <<"^2","1">> }
ParseGenders == {"0", "1", "8", "^2"}
ParseIds ==
    { <<c>> \o d \o g \o <<"0","0","0">> \o <<x>> \o <<"3">> :
        c \in ParseCenturies, d \in ParseDates, g \in ParseGovernorates,
        x \in ParseGenders }
    \cup { <<>>,
           <<"3","0","1","0","1","0","1","2","1","0","0","0","1">>,
           <<"3","0","1","0","1","0","1","2","1","0","0","0","1","3","3">>,
           <<"3","0","1","0","1","0","1","2","1","0","0","0","1","x">>,
           <<"3","0","1","0","1","0","1"," ","1","0","0","0","1","3">>,
           <<" ","3","0","1","0","1","0","1","2","1","0","0","0","1","3"," ">> }

(* ------------------------------- state --------------------------------- *)
VARIABLES
    settings,      \* config.settings: api_rate_limit_per_minute, default_api_keys
    clock,         \* the value time.monotonic() returns now
    _state,        \* RateLimiter._state: key -> RateLimitState
    rl_lock,       \* RateLimiter._lock: 0 free, else the holding thread
    db,            \* the api_keys table: key -> row
    db_lock,       \* Database._lock: 0 free, else the holding thread
    req,           \* per worker thread: the request it serves and its locals
    init,          \* the thread running Database.initialise and its arguments
    nreq,          \* requests received so far
    ninit,         \* Database.initialise calls completed so far
    admitted,      \* history: per key, requests Allowed into its current window
    usage_calls,   \* history: per key, increment_usage calls that committed
    ok_inspects,   \* history: per key, inspect requests answered 200
    allowed_at     \* history: per key and timestamp, the requests Allowed
                   \* with that timestamp (kept by CheckDecideLogged only)

vars == <<settings, clock, _state, rl_lock, db, db_lock, req, init, nreq, ninit,
          admitted, usage_calls, ok_inspects, allowed_at>>

\* the thread that runs the startup hook and later initialise calls
MainThread == NumThreads + 1

\* no request has been Allowed yet
NoneAllowed == [k \in StoreKeys |-> [x \in BurstTimes |-> 0]]

IdleRequest ==
    [pc |-> "idle", endpoint |-> "inspect", api_key |-> NoHeader,
     national_id |-> <<>>, record |-> None, limit |-> 0, now |-> 0,
     state |-> None, decision |-> "", increments |-> 0,
     status |-> 0, detail |-> "", total_requests |-> 0, details |-> None]

\* the response leaves the thread: its locals are dropped, what the client
\* and the history see of the request stays until the thread's next request
Respond(r, status, detail, total_requests) ==
    [IdleRequest EXCEPT !.pc = "done", !.endpoint = r.endpoint,
        !.api_key = r.api_key, !.decision = r.decision,
        !.increments = r.increments, !.status = status, !.detail = detail,
        !.total_requests = total_requests]

Init ==
    /\ settings \in [api_rate_limit_per_minute : Limits,
                     default_api_keys : {StartupKeys}]
    /\ clock = 0
    /\ _state = <<>>
    /\ rl_lock = 0
    /\ db = <<>>
    /\ db_lock = 0
    /\ req = [t \in Threads |-> IdleRequest]
    /\ init = [pc |-> "idle", default_keys |-> <<>>, rate_limit |-> 0]
    /\ nreq = 0
    /\ ninit = 0
    /\ admitted = [k \in StoreKeys |-> 0]
    /\ usage_calls = [k \in StoreKeys |-> 0]
    /\ ok_inspects = [k \in StoreKeys |-> 0]
    /\ allowed_at = NoneAllowed

(* ------------------------------ the clock ------------------------------ *)
\* time.monotonic() never goes back
Tick ==
    /\ \E t \in Times : t > clock /\ clock' = t
    /\ UNCHANGED <<settings, _state, rl_lock, db, db_lock, req, init, nreq, ninit,
                   admitted, usage_calls, ok_inspects, allowed_at>>

(* ----------------------- database.py: the key store -------------------- *)
\* "with self._lock": the lock can be taken only when no thread holds it
DatabaseLockFree_unguarded(lock) == TRUE

DatabaseLockFree(lock) == lock = 0

\* INSERT ... ON CONFLICT(key) DO UPDATE SET owner=excluded.owner, but as
\* INSERT OR REPLACE: the whole row is rewritten
UpsertRow_replace(table, key_value, owner, rate_limit) ==
    [k \in DOMAIN table \cup {key_value} |->
        IF k = key_value
        THEN [owner |-> owner, rate_limit |-> rate_limit, total_requests |-> 0]
        ELSE table[k]]

\* INSERT INTO api_keys (key, owner, rate_limit) VALUES (?, ?, ?)
\* ON CONFLICT(key) DO UPDATE SET owner=excluded.owner
UpsertRow(table, key_value, owner, rate_limit) ==
    IF key_value \in DOMAIN table
    THEN [table EXCEPT ![key_value].owner = owner]
    ELSE [k \in DOMAIN table \cup {key_value} |->
            IF k = key_value
            THEN [owner |-> owner, rate_limit |-> rate_limit, total_requests |-> 0]
            ELSE table[k]]

\* the for loop of Database.initialise over default_keys, in order
RECURSIVE initialise(_, _, _)
initialise(table, default_keys, rate_limit) ==
    IF default_keys = <<>> THEN table
    ELSE initialise(UpsertRow(table, Head(default_keys)[1], Head(default_keys)[2],
                              rate_limit),
                    Tail(default_keys), rate_limit)

\* an unknown key is served as the demo account
get_api_key_or_demo(table, key) ==
    IF key \in DOMAIN table
    THEN Some([key |-> key, owner |-> table[key].owner,
               rate_limit |-> table[key].rate_limit,
               total_requests |-> table[key].total_requests])
    ELSE Some([key |-> key, owner |-> "Demo account", rate_limit |-> 2,
               total_requests |-> 0])

\* SELECT key, owner, rate_limit, total_requests ... fetchone(): dict(row) or None
get_api_key(table, key) ==
    IF key \in DOMAIN table
    THEN Some([key |-> key, owner |-> table[key].owner,
               rate_limit |-> table[key].rate_limit,
               total_requests |-> table[key].total_requests])
    ELSE None

\* UPDATE api_keys SET total_requests = total_requests + 1 WHERE key = ?
increment_usage(table, key) ==
    IF key \in DOMAIN table
    THEN [table EXCEPT ![key].total_requests = @ + 1]
    ELSE table

\* SELECT total_requests ... : int(row[0]) or None
get_usage(table, key) ==
    IF key \in DOMAIN table THEN Some(table[key].total_requests) ELSE None

\* main.py startup hook: database.initialise(settings.default_api_keys,
\* settings.api_rate_limit_per_minute)
initialise_database ==
    /\ init.pc = "idle"
    /\ ninit = 0
    /\ init' = [pc |-> "lock", default_keys |-> settings.default_api_keys,
                rate_limit |-> settings.api_rate_limit_per_minute]
    /\ UNCHANGED <<settings, clock, _state, rl_lock, db, db_lock, req, nreq, ninit,
                   admitted, usage_calls, ok_inspects, allowed_at>>

\* Database.initialise: "with self._lock"; the startup hook's call, or a
\* later call on the same database with other arguments
InitialiseLock ==
    /\ init.pc = "lock" \/ (init.pc = "idle" /\ ninit >= 1 /\ ninit < 1 + MaxInitialise)
    /\ DatabaseLockFree(db_lock)
    /\ db_lock' = MainThread
    /\ IF init.pc = "lock"
       THEN init' = [init EXCEPT !.pc = "commit"]
       ELSE \E rl \in Limits :
              init' = [pc |-> "commit", default_keys |-> LaterKeys, rate_limit |-> rl]
    /\ UNCHANGED <<settings, clock, _state, rl_lock, db, req, nreq, ninit,
                   admitted, usage_calls, ok_inspects, allowed_at>>

\* Database.initialise: the statements, the connection's commit, the release
InitialiseCommit ==
    /\ init.pc = "commit"
    /\ db' = initialise(db, init.default_keys, init.rate_limit)
    /\ db_lock' = 0
    /\ init' = [init EXCEPT !.pc = "idle"]
    /\ ninit' = ninit + 1
    /\ UNCHANGED <<settings, clock, _state, rl_lock, req, nreq,
                   admitted, usage_calls, ok_inspects, allowed_at>>

(* ------------------- security.py: the rate limiter --------------------- *)
RateLimiterLockFree_unguarded(lock) == TRUE

\* RateLimiter.check: "with self._lock"
RateLimiterLockFree(lock) == lock = 0

WindowExpired_strict(now, state) == now - state.start_time > window_seconds

\* now - state.start_time >= self.window_seconds
WindowExpired(now, state) == now - state.start_time >= window_seconds

\* state.count >= limit
Exhausted(state, limit) == state.count >= limit

\* the branch RateLimiter.check takes on the state it read under the lock
Decision(now, state, limit) ==
    IF state = None \/ WindowExpired(now, state[1]) THEN "new_window"
    ELSE IF Exhausted(state[1], limit) THEN "rejected"
    ELSE "counted"

\* the check adds 1 to count before it compares with the limit
check_counts_rejected(table, key, now, state, d) ==
    IF d = "new_window"
    THEN [x \in DOMAIN table \cup {key} |->
            IF x = key THEN [start_time |-> now, count |-> 1] ELSE table[x]]
    ELSE [table EXCEPT ![key].count = state[1].count + 1]

\* RateLimiter.check: what the branch d leaves in self._state (table), for
\* the key and the RateLimitState read under the lock
check(table, key, now, state, d) ==
    IF d = "new_window"
    THEN [x \in DOMAIN table \cup {key} |->
            IF x = key THEN [start_time |-> now, count |-> 1] ELSE table[x]]
    ELSE IF d = "counted"
    THEN [table EXCEPT ![key].count = state[1].count + 1]
    ELSE table

\* the lock is still held when check returns to the gate
LimiterLockAfterCheck_held(t) == t

\* RateLimiter.check: the with block ends on return and on raise
LimiterLockAfterCheck(t) == 0

(* --------------------- security.py: the access gate -------------------- *)
\* "if not api_key": the header is absent (None) or empty
Falsy(api_key) == api_key \in {NoHeader, ""}

\* record.get("rate_limit") or settings.api_rate_limit_per_minute
EffectiveLimit_or_default(record) ==
    IF record.rate_limit = 0 THEN settings.api_rate_limit_per_minute
    ELSE record.rate_limit

\* int(record["rate_limit"]) if record.get("rate_limit") is not None
\* else settings.api_rate_limit_per_minute; the column is NOT NULL
EffectiveLimit(record) == record.rate_limit

\* an unknown key answered 403 Forbidden, a missing one 401
Unauthenticated_forbidden(r, detail) ==
    Respond(r, IF detail = "Invalid API key" THEN 403 ELSE HTTP_401_UNAUTHORIZED,
            detail, 0)

\* raise HTTPException(status_code=HTTP_401_UNAUTHORIZED, detail=...)
Unauthenticated(r, detail) == Respond(r, HTTP_401_UNAUTHORIZED, detail, 0)

RateLimited_still_served(r) ==
    [r EXCEPT !.pc = "inc_lock", !.decision = "rejected"]

\* RateLimitExceededError -> HTTPException(HTTP_429_TOO_MANY_REQUESTS)
RateLimited(r) ==
    Respond([r EXCEPT !.decision = "rejected"], HTTP_429_TOO_MANY_REQUESTS,
            "Rate limit exceeded", 0)

IncrementUsageFlag_always(endpoint) == TRUE

IncrementUsageFlag_never(endpoint) == FALSE

\* the increment_usage flag of the route's dependency: get_current_api_key()
\* for inspect, get_current_api_key(increment_usage=False) for usage
IncrementUsageFlag(endpoint) == endpoint = "inspect"

\* a worker thread takes a request; dependency(): the key checks,
\* database.get_api_key, the effective limit (the thread keeps of the record
\* what the routes read: key and owner); then RateLimiter.check reads
\* now = time.monotonic(), before taking the lock
Request(t, endpoints, keys, ids, max) ==
    /\ ninit >= 1
    /\ req[t].pc \in {"idle", "done"}
    /\ nreq < max
    /\ \E e \in endpoints, k \in keys, id \in ids :
        LET r  == [IdleRequest EXCEPT !.endpoint = e, !.api_key = k,
                     !.national_id = IF e = "inspect" THEN id ELSE <<>>]
            record == get_api_key(db, k)
        IN
        req' = [req EXCEPT ![t] =
              IF Falsy(k) THEN Unauthenticated(r, "Missing API key")
              ELSE IF record = None THEN Unauthenticated(r, "Invalid API key")
              ELSE [r EXCEPT !.pc = "lock",
                             !.record = Some([key |-> record[1].key,
                                              owner |-> record[1].owner]),
                             !.limit = EffectiveLimit(record[1]), !.now = clock]]
    /\ nreq' = nreq + 1
    /\ UNCHANGED <<settings, clock, _state, rl_lock, db, db_lock, init, ninit,
                   admitted, usage_calls, ok_inspects, allowed_at>>

\* the requests of the service: either endpoint, any of ApiKeys, the two IDs
Authenticate(t) == Request(t, Endpoints, ApiKeys, NationalIds, MaxRequests)

\* RateLimiter.check: with self._lock: state = self._state.get(key)
CheckLock(t) ==
    /\ req[t].pc = "lock"
    /\ RateLimiterLockFree(rl_lock)
    /\ rl_lock' = t
    /\ LET k == req[t].api_key IN
       req' = [req EXCEPT ![t].pc = "decide",
                          ![t].state = IF k \in DOMAIN _state
                                       THEN Some(_state[k]) ELSE None]
    /\ UNCHANGED <<settings, clock, _state, db, db_lock, init, nreq, ninit,
                   admitted, usage_calls, ok_inspects, allowed_at>>

\* RateLimiter.check: the three branches, then the lock is released; the
\* gate turns the exception into 429 or goes on to the usage increment
Decide(t) ==
    /\ req[t].pc = "decide"
    /\ LET r == req[t]
           k == r.api_key
           d == Decision(r.now, r.state, r.limit)
           next == IF IncrementUsageFlag(r.endpoint) THEN "inc_lock" ELSE "handler"
       IN
       /\ _state' = check(_state, k, r.now, r.state, d)
       /\ admitted' =
            IF d = "new_window" THEN [admitted EXCEPT ![k] = 1]
            ELSE IF d = "counted" THEN [admitted EXCEPT ![k] = @ + 1]
            ELSE admitted
       /\ req' = [req EXCEPT ![t] =
            IF d = "rejected" THEN RateLimited(r)
            ELSE [r EXCEPT !.pc = next, !.decision = d]]
    /\ rl_lock' = LimiterLockAfterCheck(t)
    /\ UNCHANGED <<settings, clock, db, db_lock, init, nreq, ninit,
                   usage_calls, ok_inspects>>

CheckDecide(t) == Decide(t) /\ UNCHANGED allowed_at

\* the same step, with the history of Allowed timestamps kept
CheckDecideLogged(t) ==
    /\ Decide(t)
    /\ LET r == req[t] IN
       allowed_at' =
         IF Decision(r.now, r.state, r.limit) = "rejected" THEN allowed_at
         ELSE [allowed_at EXCEPT ![r.api_key][r.now] = @ + 1]

\* Database.increment_usage: with self._lock
IncrementLock(t) ==
    /\ req[t].pc = "inc_lock"
    /\ DatabaseLockFree(db_lock)
    /\ db_lock' = t
    /\ req' = [req EXCEPT ![t].pc = "inc_update", ![t].increments = @ + 1]
    /\ UNCHANGED <<settings, clock, _state, rl_lock, db, init, nreq, ninit,
                   admitted, usage_calls, ok_inspects, allowed_at>>

\* Database.increment_usage: the UPDATE and the commit, then the release
IncrementCommit(t) ==
    /\ req[t].pc = "inc_update"
    /\ LET k == req[t].api_key IN
       /\ db' = increment_usage(db, k)
       /\ usage_calls' = [usage_calls EXCEPT ![k] = @ + 1]
    /\ db_lock' = 0
    /\ req' = [req EXCEPT ![t].pc = "handler"]
    /\ UNCHANGED <<settings, clock, _state, rl_lock, init, nreq, ninit,
                   admitted, ok_inspects, allowed_at>>

\* Database.increment_usage: sqlite3 raises (the file is locked by another
\* process, the disk is full); nothing catches it on the way to the client
IncrementFails(t) ==
    /\ req[t].pc = "inc_update"
    /\ db_lock' = 0
    /\ req' = [req EXCEPT ![t] =
                 Respond(req[t], HTTP_500_INTERNAL_SERVER_ERROR,
                         "Internal Server Error", 0)]
    /\ UNCHANGED <<settings, clock, _state, rl_lock, db, init, nreq, ninit,
                   admitted, usage_calls, ok_inspects, allowed_at>>

(* --------------------------- main.py: routes --------------------------- *)
\* inspect_national_id: parse_national_id, 200 with the details, 400 for a
\* NationalIDValidationError; any other exception is not caught: 500
Inspect(t) ==
    /\ req[t].pc = "handler"
    /\ req[t].endpoint = "inspect"
    /\ LET r == req[t]
           details == parse_national_id(r.national_id)
       IN
       /\ req' = [req EXCEPT ![t] =
            IF details.ok
            THEN [Respond(r, HTTP_200_OK, "", 0) EXCEPT !.details =
                    Some([birth_date |-> details.birth_date,
                          gender |-> details.gender,
                          governorate_code |-> details.governorate_code])]
            ELSE IF details.raises = "NationalIDValidationError"
            THEN Respond(r, HTTP_400_BAD_REQUEST, details.error, 0)
            ELSE Respond(r, HTTP_500_INTERNAL_SERVER_ERROR,
                         "Internal Server Error", 0)]
       /\ ok_inspects' = IF details.ok
                         THEN [ok_inspects EXCEPT ![r.api_key] = @ + 1]
                         ELSE ok_inspects
    /\ UNCHANGED <<settings, clock, _state, rl_lock, db, db_lock, init, nreq, ninit,
                   admitted, usage_calls, allowed_at>>

\* get_usage: total_requests = database.get_usage(key) or 0
Usage(t) ==
    /\ req[t].pc = "handler"
    /\ req[t].endpoint = "usage"
    /\ LET r == req[t]
           total == get_usage(db, r.record[1].key)
       IN req' = [req EXCEPT ![t] =
            Respond(r, HTTP_200_OK, "", IF total = None THEN 0 ELSE total[1])]
    /\ UNCHANGED <<settings, clock, _state, rl_lock, db, db_lock, init, nreq, ninit,
                   admitted, usage_calls, ok_inspects, allowed_at>>

(* --------------------------- specification ----------------------------- *)
Next ==
    \/ Tick
    \/ initialise_database
    \/ InitialiseLock
    \/ InitialiseCommit
    \/ \E t \in Threads : Authenticate(t)
    \/ \E t \in Threads : CheckLock(t)
    \/ \E t \in Threads : CheckDecide(t)
    \/ \E t \in Threads : IncrementLock(t)
    \/ \E t \in Threads : IncrementCommit(t)
    \/ \E t \in Threads : IncrementFails(t)
    \/ \E t \in Threads : Inspect(t)
    \/ \E t \in Threads : Usage(t)

Spec == Init /\ [][Next]_vars

(* ------------------- parse_national_id on its inputs ------------------- *)
\* after the startup hook, thread 1 serves the first request: an inspect
\* request with the stored key that passed the gate, its body any of ParseIds
ParseInit ==
    /\ settings = [api_rate_limit_per_minute |-> 2, default_api_keys |-> StartupKeys]
    /\ clock = 0
    /\ _state = [k \in {"test-key"} |-> [start_time |-> 0, count |-> 1]]
    /\ rl_lock = 0
    /\ db = increment_usage(initialise(<<>>, StartupKeys, 2), "test-key")
    /\ db_lock = 0
    /\ \E id \in ParseIds :
         req = [t \in Threads |->
                  IF t = 1
                  THEN [IdleRequest EXCEPT !.pc = "handler", !.api_key = "test-key",
                          !.national_id = id,
                          !.record = Some([key |-> "test-key", owner |-> "Test User"]),
                          !.limit = 2, !.decision = "new_window", !.increments = 1]
                  ELSE IdleRequest]
    /\ init = [pc |-> "idle", default_keys |-> StartupKeys, rate_limit |-> 2]
    /\ nreq = 1
    /\ ninit = 1
    /\ admitted = [k \in StoreKeys |-> IF k = "test-key" THEN 1 ELSE 0]
    /\ usage_calls = [k \in StoreKeys |-> IF k = "test-key" THEN 1 ELSE 0]
    /\ ok_inspects = [k \in StoreKeys |-> 0]
    /\ allowed_at = NoneAllowed

ParseNext == \E t \in Threads : Inspect(t)

ParseSpec == ParseInit /\ [][ParseNext]_vars

(* ---------------- a restart on the database of an earlier run ---------- *)
\* DEFAULT_API_KEYS of tests/test_main.py
TestKeys == << <<"test-key", "Test User">>, <<"rate-key", "Rate User">> >>

\* the api_keys table an earlier run left in the file: that run was started
\* with API_RATE_LIMIT_PER_MINUTE 0 or -1 when it inserted test-key and
\* with 1 when it inserted rate-key
PersistedTables ==
    { [k \in {"test-key", "rate-key"} |->
         IF k = "test-key"
         THEN [owner |-> "Test User", rate_limit |-> l, total_requests |-> 0]
         ELSE [owner |-> "Rate User", rate_limit |-> 1, total_requests |-> 0]] :
      l \in {-1, 0} }

\* this run: API_RATE_LIMIT_PER_MINUTE=2, the startup hook has run
RestartInit ==
    /\ settings = [api_rate_limit_per_minute |-> 2, default_api_keys |-> TestKeys]
    /\ clock = 0
    /\ _state = <<>>
    /\ rl_lock = 0
    /\ \E table \in PersistedTables : db = initialise(table, TestKeys, 2)
    /\ db_lock = 0
    /\ req = [t \in Threads |-> IdleRequest]
    /\ init = [pc |-> "idle", default_keys |-> TestKeys, rate_limit |-> 2]
    /\ nreq = 0
    /\ ninit = 1
    /\ admitted = [k \in StoreKeys |-> 0]
    /\ usage_calls = [k \in StoreKeys |-> 0]
    /\ ok_inspects = [k \in StoreKeys |-> 0]
    /\ allowed_at = NoneAllowed

\* requests with either stored key
RestartRequest(t) ==
    Request(t, Endpoints, {"test-key", "rate-key"},
            { <<"3","0","1","0","1","0","1","2","1","0","0","0","1","3">> },
            MaxRequests)

RestartNext ==
    \/ Tick
    \/ \E t \in Threads : RestartRequest(t)
    \/ \E t \in Threads : CheckLock(t)
    \/ \E t \in Threads : CheckDecide(t)
    \/ \E t \in Threads : IncrementLock(t)
    \/ \E t \in Threads : IncrementCommit(t)
    \/ \E t \in Threads : IncrementFails(t)
    \/ \E t \in Threads : Inspect(t)
    \/ \E t \in Threads : Usage(t)

RestartSpec == RestartInit /\ [][RestartNext]_vars

(* --------------- usage requests with one key over three windows -------- *)
\* API_RATE_LIMIT_PER_MINUTE=2, the startup hook has run on a new database
BurstInit ==
    /\ settings = [api_rate_limit_per_minute |-> 2, default_api_keys |-> StartupKeys]
    /\ clock = 0
    /\ _state = <<>>
    /\ rl_lock = 0
    /\ db = initialise(<<>>, StartupKeys, 2)
    /\ db_lock = 0
    /\ req = [t \in Threads |-> IdleRequest]
    /\ init = [pc |-> "idle", default_keys |-> StartupKeys, rate_limit |-> 2]
    /\ nreq = 0
    /\ ninit = 1
    /\ admitted = [k \in StoreKeys |-> 0]
    /\ usage_calls = [k \in StoreKeys |-> 0]
    /\ ok_inspects = [k \in StoreKeys |-> 0]
    /\ allowed_at = NoneAllowed

BurstTick ==
    /\ \E t \in BurstTimes : t > clock /\ clock' = t
    /\ UNCHANGED <<settings, _state, rl_lock, db, db_lock, req, init, nreq, ninit,
                   admitted, usage_calls, ok_inspects, allowed_at>>

BurstRequest(t) ==
    Request(t, {"usage"}, {"test-key"}, NationalIds, MaxBurstRequests)

BurstNext ==
    \/ BurstTick
    \/ \E t \in Threads : BurstRequest(t)
    \/ \E t \in Threads : CheckLock(t)
    \/ \E t \in Threads : CheckDecideLogged(t)
    \/ \E t \in Threads : Usage(t)

BurstSpec == BurstInit /\ [][BurstNext]_vars

(* ------------------------------ properties ----------------------------- *)
InFlight(t) == req[t].pc \notin {"idle", "done"}

Allowed(r) == r.decision \in {"new_window", "counted"}

\* the step is thread t's RateLimiter.check leaving its critical section
DecideStep(t) == req[t].pc = "decide" /\ req'[t].pc # "decide"

\* C1: for every key with configured limit L, at most L requests are Allowed
\* within one window (its count never exceeds L), so the (L+1)th request of
\* the window is Rejected.
C1_AtMostLimitPerWindow ==
    \A k \in DOMAIN _state :
        /\ _state[k].count <= db[k].rate_limit
        /\ admitted[k] <= db[k].rate_limit

\* C2: a check whose timestamp is exactly window_start + window_seconds opens
\* a fresh window {start_time: now, count: 1} and is Allowed, also when the
\* window it read was exhausted; a check with elapsed < window_seconds on an
\* exhausted window is Rejected (429).
C2_BoundaryStartsFreshWindow ==
    [][\A t \in Threads :
        (DecideStep(t) /\ req[t].state # None) =>
            LET r == req[t]
                elapsed == r.now - r.state[1].start_time
            IN
            /\ elapsed = window_seconds =>
                  /\ _state'[r.api_key] = [start_time |-> r.now, count |-> 1]
                  /\ req'[t].decision = "new_window"
                  /\ req'[t].status # HTTP_429_TOO_MANY_REQUESTS
            /\ (elapsed < window_seconds /\ r.state[1].count >= r.limit) =>
                  /\ req'[t].pc = "done"
                  /\ req'[t].status = HTTP_429_TOO_MANY_REQUESTS
                  /\ _state' = _state
      ]_vars

\* a request was Allowed at the boundary of a window it had read as exhausted
C2_Witness ==
    \E t \in Threads :
        /\ InFlight(t)
        /\ req[t].decision = "new_window"
        /\ req[t].state # None
        /\ req[t].now - req[t].state[1].start_time = window_seconds
        /\ req[t].state[1].count >= req[t].limit
        /\ _state[req[t].api_key] = [start_time |-> req[t].now, count |-> 1]

\* C3: check calls on one key are serialized: at most one thread is inside
\* the critical section, the window's count equals the number of requests
\* admitted into it, and with a limit L >= 1 no interleaving admits more than
\* L (two concurrent calls never both take the last slot).
C3_ChecksSerialized ==
    /\ Cardinality({t \in Threads : req[t].pc = "decide"}) <= 1
    /\ \A k \in DOMAIN _state :
          /\ _state[k].count = admitted[k]
          /\ db[k].rate_limit >= 1 => admitted[k] <= db[k].rate_limit

\* two check calls on one key overlap while exactly one slot is left: one is
\* in the critical section having read count = limit - 1, the other waits
C3_Witness ==
    \E t1, t2 \in Threads :
        /\ t1 # t2
        /\ req[t1].pc = "decide" /\ req[t2].pc = "lock"
        /\ req[t1].api_key = req[t2].api_key
        /\ req[t1].state # None
        /\ req[t1].state[1].count = req[t1].limit - 1
        /\ ~WindowExpired(req[t1].now, req[t1].state[1])
        /\ ~WindowExpired(req[t2].now, req[t1].state[1])

\* C4: increment_usage is called exactly once for an inspect request that is
\* Allowed and answered 200, never for a request answered 401 or 429, and
\* only by requests that passed the rate-limit check.
C4_IncrementOncePerAllowed ==
    \A t \in Threads :
        /\ req[t].increments <= 1
        /\ req[t].increments > 0 => Allowed(req[t])
        /\ req[t].pc = "done" =>
            /\ req[t].status \in {HTTP_401_UNAUTHORIZED, HTTP_429_TOO_MANY_REQUESTS}
                  => req[t].increments = 0
            /\ (req[t].status = HTTP_200_OK /\ req[t].endpoint = "inspect")
                  => req[t].increments = 1

\* one inspect request was answered 200 after one increment, another was
\* answered 429 without any
C4_Witness ==
    \E t1, t2 \in Threads :
        /\ req[t1].pc = "done" /\ req[t1].endpoint = "inspect"
        /\ req[t1].status = HTTP_200_OK /\ req[t1].increments = 1
        /\ req[t2].pc = "done" /\ req[t2].endpoint = "inspect"
        /\ req[t2].status = HTTP_429_TOO_MANY_REQUESTS /\ req[t2].increments = 0
        /\ db[req[t1].api_key].total_requests = 1

\* C5: after n successful inspect requests with a key of positive limit and
\* no other request, a following usage request with the key is answered 200
\* and reports total_requests = n.
C5_UsageReportsInspects ==
    \A t \in Threads :
        ( /\ req[t].pc = "done"
          /\ req[t].endpoint = "usage"
          /\ req[t].api_key \in DOMAIN db
          /\ db[req[t].api_key].rate_limit >= 1
          /\ nreq = ok_inspects[req[t].api_key] + 1 )
        => /\ req[t].status = HTTP_200_OK
           /\ req[t].total_requests = ok_inspects[req[t].api_key]

\* C6: Database.initialise never resets an existing key: no step lowers a
\* total_requests or changes a rate_limit, and an initialise commit changes
\* of an existing row at most owner, to the owner given for it, and inserts an
\* absent key with total_requests = 0 and the rate_limit given.
C6_InitialiseKeepsUsage ==
    [][/\ \A k \in DOMAIN db :
            /\ k \in DOMAIN db'
            /\ db'[k].total_requests >= db[k].total_requests
            /\ db'[k].rate_limit = db[k].rate_limit
       /\ (init.pc = "commit" /\ init'.pc = "idle") =>
            /\ \A k \in DOMAIN db :
                  /\ db'[k].total_requests = db[k].total_requests
                  /\ \/ db'[k].owner = db[k].owner
                     \/ \E i \in 1..Len(init.default_keys) :
                          init.default_keys[i] = <<k, db'[k].owner>>
            /\ \A i \in 1..Len(init.default_keys) :
                  init.default_keys[i][1] \in DOMAIN db'
            /\ \A k \in DOMAIN db' \ DOMAIN db :
                  /\ db'[k].total_requests = 0
                  /\ db'[k].rate_limit = init.rate_limit
      ]_vars

\* a later initialise, given another rate_limit, left the used key's count and
\* limit alone, changed its owner and inserted the absent key
C6_Witness ==
    /\ ninit = 2
    /\ init.rate_limit # settings.api_rate_limit_per_minute
    /\ db["test-key"].total_requests >= 1
    /\ db["test-key"].rate_limit = settings.api_rate_limit_per_minute
    /\ db["test-key"].owner = "default"
    /\ "rate-key" \in DOMAIN db
    /\ db["rate-key"].total_requests = 0
    /\ db["rate-key"].rate_limit = init.rate_limit

\* C7: a request without a key (absent or empty header) and a request with
\* an unknown key are both answered 401, before the rate limiter is
\* consulted.
C7_MissingAndUnknownAlike ==
    \A t \in Threads :
        (req[t].pc = "done"
            /\ (Falsy(req[t].api_key) \/ req[t].api_key \notin DOMAIN db))
        => /\ req[t].status = HTTP_401_UNAUTHORIZED
           /\ req[t].decision = ""
           /\ req[t].increments = 0

\* a request without header and one with an unknown key were both answered
C7_Witness ==
    \E t1, t2 \in Threads :
        /\ req[t1].pc = "done" /\ req[t1].api_key = NoHeader
        /\ req[t2].pc = "done" /\ req[t2].api_key = "bogus-key"
        /\ req[t1].status = req[t2].status

\* the step belongs to a usage request served by thread t
UsageStep(t) ==
    /\ req'[t] # req[t]
    /\ \/ InFlight(t) /\ req[t].endpoint = "usage"
       \/ ~InFlight(t) /\ req'[t].endpoint = "usage"

\* C8: a request to the usage endpoint (gate with increment_usage disabled)
\* leaves every key's total_requests unchanged, whatever its outcome.
C8_UsageLeavesCounters ==
    [][\A t \in Threads :
        UsageStep(t) => /\ db' = db
                        /\ req'[t].increments = 0
      ]_vars

\* usage requests were answered 200 (reporting a count) and 429
C8_Witness ==
    \E t1, t2 \in Threads :
        /\ req[t1].pc = "done" /\ req[t1].endpoint = "usage"
        /\ req[t1].status = HTTP_200_OK /\ req[t1].total_requests >= 1
        /\ req[t2].pc = "done" /\ req[t2].endpoint = "usage"
        /\ req[t2].status = HTTP_429_TOO_MANY_REQUESTS

\* C9: increment_usage never raises to the caller, and a failure of the
\* usage increment never fails the response of a request that was already
\* authorized and allowed.
C9_IncrementNeverFailsResponse ==
    \A t \in Threads :
        (req[t].pc = "done" /\ Allowed(req[t]))
        => req[t].status \in {HTTP_200_OK, HTTP_400_BAD_REQUEST}

\* C10: initialise and increment_usage exclude each other, and no update is
\* lost: each key's total_requests is the number of increment_usage calls
\* that committed for it.
C10_NoLostUpdate ==
    /\ Cardinality({t \in Threads : req[t].pc = "inc_update"})
         + (IF init.pc = "commit" THEN 1 ELSE 0) <= 1
    /\ \A k \in DOMAIN db : db[k].total_requests = usage_calls[k]

\* after a second initialise and a committed increment, one increment_usage
\* call holds the lock while another waits for it
C10_Witness ==
    \E t1, t2 \in Threads :
        /\ t1 # t2
        /\ req[t1].pc = "inc_update" /\ req[t2].pc = "inc_lock"
        /\ ninit = 2
        /\ usage_calls["test-key"] >= 1
        /\ db["test-key"].total_requests = usage_calls["test-key"]

\* the step is thread t's inspect handler answering
InspectStep(t) ==
    req[t].pc = "handler" /\ req[t].endpoint = "inspect" /\ req'[t].pc = "done"

\* s is 14 decimal digits
IsFourteenDigits(s) == Len(s) = 14 /\ \A i \in 1..14 : s[i] \in Digits

\* the number two decimal digits a, b spell
TwoDigits(a, b) == DigitVal(a) * 10 + DigitVal(b)

\* C11: parse_national_id decodes a 14-digit ID by position: a first digit
\* other than 2 or 3 fails with "Unsupported century digit"; otherwise a
\* decoded ID has the birth date of century 1900 (2) or 2000 (3) plus digits
\* 2-7 as YYMMDD, the governorate code of digits 8-9, found in the table,
\* and gender male for an odd digit 13, female for an even one, and an ID
\* with a calendar date and a code of the table is decoded;
\* 30101012100013 gives 2001-01-01, 21, male and 10101012100013 fails.
C11_DecodesByPosition ==
    [][\A t \in Threads :
        (InspectStep(t) /\ IsFourteenDigits(strip(req[t].national_id))) =>
            LET s == strip(req[t].national_id)
                answer == req'[t]
                century == IF s[1] = "2" THEN 1900 ELSE 2000
                date == <<century + TwoDigits(s[2], s[3]), TwoDigits(s[4], s[5]),
                          TwoDigits(s[6], s[7])>>
            IN
            /\ s[1] \notin {"2", "3"} =>
                  /\ answer.status = HTTP_400_BAD_REQUEST
                  /\ answer.detail = "Unsupported century digit in National ID"
            /\ (s[1] \in {"2", "3"} /\ answer.status = HTTP_200_OK) =>
                  /\ answer.details # None
                  /\ answer.details[1].birth_date = date
                  /\ answer.details[1].governorate_code = <<s[8], s[9]>>
                  /\ <<s[8], s[9]>> \in _GOVERNORATE_CODES
                  /\ answer.details[1].gender = "male" <=> DigitVal(s[13]) % 2 = 1
                  /\ answer.details[1].gender = "female" <=> DigitVal(s[13]) % 2 = 0
            /\ (s[1] \in {"2", "3"} /\ ValidDate(date[1], date[2], date[3])
                    /\ <<s[8], s[9]>> \in _GOVERNORATE_CODES) =>
                  answer.status = HTTP_200_OK
            /\ s = <<"3","0","1","0","1","0","1","2","1","0","0","0","1","3">> =>
                  answer.details =
                    Some([birth_date |-> <<2001, 1, 1>>, gender |-> "male",
                          governorate_code |-> <<"2", "1">>])
            /\ s = <<"1","0","1","0","1","0","1","2","1","0","0","0","1","3">> =>
                  answer.status = HTTP_400_BAD_REQUEST
      ]_vars

\* an ID of century 1900 with an even digit 13 was decoded
C11_Witness ==
    \E t \in Threads :
        /\ req[t].pc = "done" /\ req[t].status = HTTP_200_OK
        /\ req[t].details =
             Some([birth_date |-> <<1999, 12, 31>>, gender |-> "female",
                   governorate_code |-> <<"8", "8">>])

\* C12: for every input string parse_national_id either returns the details
\* or raises NationalIDValidationError, and the inspect endpoint answers a
\* request that passed the gate with 200 or with the structured 400 payload,
\* never with an unhandled fault.
C12_OnlyValidationErrors ==
    \A t \in Threads :
        (req[t].pc = "done" /\ req[t].endpoint = "inspect" /\ Allowed(req[t])
            /\ req[t].status # HTTP_200_OK) =>
              /\ req[t].status = HTTP_400_BAD_REQUEST
              /\ req[t].detail \in
                  {"National ID must be a 14-digit numeric string",
                   "Unsupported century digit in National ID",
                   "Invalid birth date in National ID",
                   "Unknown governorate code in National ID"}

\* C13: a RateLimiter.check call that is Rejected leaves the limiter state
\* unchanged: the key's start_time and count and every other key's state
\* are after the call what they were before it.
C13_RejectedLeavesState ==
    [][\A t \in Threads :
        (DecideStep(t) /\ req'[t].decision = "rejected") => _state' = _state
      ]_vars

\* a check was Rejected while the limiter held state of both keys
C13_Witness ==
    \E t \in Threads :
        /\ req[t].pc = "done" /\ req[t].status = HTTP_429_TOO_MANY_REQUESTS
        /\ DOMAIN _state = {"test-key", "rate-key"}
        /\ req[t].api_key = "rate-key"
        /\ _state["rate-key"].count = db["rate-key"].rate_limit

\* C14: the two locks are never nested: the holder of the limiter's lock is
\* inside RateLimiter.check and holds no store lock, the holder of the
\* store's lock is inside increment_usage or initialise and holds no
\* limiter lock, so no thread waits for one lock while holding the other and
\* no store operation (done by a thread outside check) runs under the
\* limiter's lock.
C14_LocksNeverNested ==
    /\ rl_lock \in Threads \cup {0}
    /\ db_lock = MainThread => init.pc = "commit"
    /\ \A t \in Threads :
          /\ rl_lock = t => (req[t].pc = "decide" /\ db_lock # t)
          /\ db_lock = t => (req[t].pc = "inc_update" /\ rl_lock # t)
          /\ req[t].pc \in {"lock", "inc_lock"} => (rl_lock # t /\ db_lock # t)

\* both locks are held at once, by different threads serving the same key
C14_Witness ==
    \E t1, t2 \in Threads :
        /\ t1 # t2
        /\ rl_lock = t1 /\ db_lock = t2
        /\ req[t1].pc = "decide" /\ req[t2].pc = "inc_update"
        /\ req[t1].api_key = req[t2].api_key

\* the requests of key k Allowed with a timestamp from lo to hi
RECURSIVE AllowedAmong(_, _)
AllowedAmong(log, times) ==
    IF times = {} THEN 0
    ELSE LET x == CHOOSE y \in times : TRUE
         IN log[x] + AllowedAmong(log, times \ {x})

AllowedIn(k, lo, hi) ==
    AllowedAmong(allowed_at[k], {x \in BurstTimes : lo <= x /\ x <= hi})

\* C15: for a key with limit L >= 1, no more than 2 * L requests are Allowed
\* in any span of length window_seconds (the burst across one window
\* boundary: L at the end of a window, L at the start of the next).
C15_AtMostTwiceLimitPerSpan ==
    \A k \in DOMAIN db : \A a \in BurstTimes :
        db[k].rate_limit >= 1 =>
            AllowedIn(k, a, a + window_seconds) <= 2 * db[k].rate_limit

\* C16: a usage request consumes from the key's window like an inspect
\* request: when it is Allowed the window's count, which counts the Allowed
\* requests of both endpoints, is at most the limit, and when the window it
\* reads is exhausted it is answered 429.
C16_UsageCountsAgainstLimit ==
    [][\A t \in Threads :
        (DecideStep(t) /\ req[t].endpoint = "usage") =>
            LET r == req[t]
                k == r.api_key
            IN
            /\ Allowed(req'[t]) =>
                  /\ _state'[k].count = admitted'[k]
                  /\ admitted'[k] <= r.limit
            /\ (r.state # None /\ ~WindowExpired(r.now, r.state[1])
                   /\ r.state[1].count >= r.limit) =>
                  req'[t].status = HTTP_429_TOO_MANY_REQUESTS
      ]_vars

\* C17: every Allowed request is counted in the window its own timestamp
\* falls in: start_time <= now < start_time + window_seconds for the window
\* whose count it set or incremented.
C17_CountedInOwnWindow ==
    [][\A t \in Threads :
        (DecideStep(t) /\ Allowed(req'[t])) =>
            LET window == _state'[req[t].api_key] IN
            /\ window.start_time <= req[t].now
            /\ req[t].now < window.start_time + window_seconds
      ]_vars

\* C18: the request that opens a window (no state for the key, or elapsed >=
\* window_seconds) is Allowed and sets count = 1 whatever the limit; with an
\* effective limit of 0 or less every other request is Rejected, so one
\* request per window is Allowed and its count, 1, exceeds the limit; the
\* effective limit is the stored rate_limit, also when that is 0 or less
\* and the process-wide default is positive.
C18_OpeningRequestIgnoresLimit ==
    [][\A t \in Threads :
        DecideStep(t) =>
            LET r == req[t]
                k == r.api_key
                opens == r.state = None
                           \/ r.now - r.state[1].start_time >= window_seconds
            IN
            /\ r.limit = db[k].rate_limit
            /\ opens => /\ Allowed(req'[t])
                        /\ _state'[k] = [start_time |-> r.now, count |-> 1]
            /\ (r.limit <= 0 /\ ~opens) =>
                  /\ req'[t].status = HTTP_429_TOO_MANY_REQUESTS
                  /\ _state' = _state
            /\ r.limit <= 0 => (_state'[k].count = 1 /\ _state'[k].count > r.limit)
      ]_vars

\* with a stored limit of 0 or less and a positive default, one request of
\* the key was Allowed and the next one of its window Rejected
C18_Witness ==
    \E t1, t2 \in Threads :
        /\ req[t1].pc = "done" /\ req[t1].api_key = "test-key"
        /\ Allowed(req[t1])
        /\ req[t2].pc = "done" /\ req[t2].api_key = "test-key"
        /\ req[t2].status = HTTP_429_TOO_MANY_REQUESTS
        /\ db["test-key"].rate_limit < 0
        /\ settings.api_rate_limit_per_minute > 0
        /\ _state["test-key"].count = 1

\* C19: the keys holding rate-limiter state are keys of the table, and a
\* request answered 401 (missing or unknown key) creates or changes no
\* RateLimitState and no record, without consulting the limiter.
C19_LimiterKeysAreStoreKeys ==
    [][/\ DOMAIN _state' \subseteq DOMAIN db'
       /\ \A t \in Threads :
            (req'[t] # req[t] /\ req'[t].pc = "done"
                /\ req'[t].status = HTTP_401_UNAUTHORIZED) =>
              /\ _state' = _state
              /\ db' = db
              /\ req'[t].decision = ""
      ]_vars

\* requests with an unknown key and without a key were answered while the
\* limiter holds the state of the stored key only
C19_Witness ==
    \E t1, t2 \in Threads :
        /\ req[t1].pc = "done" /\ req[t1].api_key = "bogus-key"
        /\ req[t1].status = HTTP_401_UNAUTHORIZED
        /\ req[t2].pc = "done" /\ req[t2].api_key = ""
        /\ req[t2].status = HTTP_401_UNAUTHORIZED
        /\ DOMAIN _state = {"test-key"}
        /\ DOMAIN db = {"test-key", "rate-key"}

\* C20: the decoder runs only for a request the gate let through, after
\* the usage increment: a request in the inspect handler was Allowed and had
\* increment_usage called once, an inspect request answered 400 for its ID
\* consumed a slot of the window and one increment, and a request answered
\* 401 or 429 carries no result of the decoder.
C20_IncrementBeforeDecoder ==
    \A t \in Threads :
        /\ (req[t].pc = "handler" /\ req[t].endpoint = "inspect") =>
              (Allowed(req[t]) /\ req[t].increments = 1)
        /\ (req[t].pc = "done" /\ req[t].status = HTTP_400_BAD_REQUEST) =>
              /\ Allowed(req[t]) /\ req[t].increments = 1
              /\ req[t].api_key \in DOMAIN _state
              /\ _state[req[t].api_key].count >= 1
              /\ db[req[t].api_key].total_requests >= 1
        /\ (req[t].pc = "done" /\ req[t].status \in
                {HTTP_401_UNAUTHORIZED, HTTP_429_TOO_MANY_REQUESTS}) =>
              /\ req[t].details = None
              /\ req[t].detail \in
                   {"Missing API key", "Invalid API key", "Rate limit exceeded"}
              /\ req[t].increments = 0

\* the only request so far, an inspect request with an ID of century digit
\* 1, was answered 400 and the key's total_requests and window count are 1
C20_Witness ==
    \E t \in Threads :
        /\ req[t].pc = "done" /\ req[t].endpoint = "inspect"
        /\ req[t].status = HTTP_400_BAD_REQUEST
        /\ req[t].detail = "Unsupported century digit in National ID"
        /\ nreq = 1
        /\ db[req[t].api_key].total_requests = 1
        /\ _state[req[t].api_key].count = 1
====
